---- MODULE Spec2Model ----
(***************************************************************************)
(* Model of the AI Services API (FastAPI): the chat flow                   *)
(* (handle_chat_message -> ChatbotService.get_concise_answer ->            *)
(* RAGService.query), the summarize flow (create_summary ->                *)
(* SummarizeService.generate_summary -> _generate_visualization_data), the *)
(* dashboard endpoint and process start-up (Settings, service singletons). *)
(*                                                                         *)
(* A Python str is a sequence of tokens: a token is one character where    *)
(* the code inspects characters (strip, upper, "in") and an opaque chunk   *)
(* of literal text elsewhere.  f-string formatting is concatenation.       *)
(* The handlers are `async def` bodies that only make blocking calls, so   *)
(* one handler runs at a time; pc is the position inside that handler.     *)
(*                                                                         *)
(* The external services are the environment: every call either raises or  *)
(* returns, and what it returns is drawn from a small set.  The content of *)
(* the vector index is fixed for a run (the program never writes to it).   *)
(* Metadata values and completion contents that are present are str.       *)
(***************************************************************************)
EXTENDS Integers, Sequences, FiniteSets

VARIABLES
    env,              \* the environment/.env: key -> "missing" | "empty" | "set"
    proc,             \* process start-up position
    index,            \* content of the external vector index: query -> matches
    history,          \* self.chat history of the one ChatbotService
    pc,               \* position of the handler being run ("idle": none)
    req,              \* the request being handled
    calls,            \* external calls issued for the request being handled
    matches,          \* RAGService.query: local matches
    pos,              \* RAGService.query: 1-based position of the for loop
    text_list,        \* RAGService.query: local text_list
    source_papers,    \* RAGService.query: local source_papers
    seen_papers,      \* RAGService.query: local seen_papers
    rag_ret,          \* value returned by RAGService.query
    sources_formatted,\* get_concise_answer: local sources_formatted
    prompt,           \* get_concise_answer: local prompt
    ret,              \* value returned by the service method to the endpoint
    summary_markdown, \* generate_summary: local summary_markdown
    resp,             \* the HTTP response of the last finished request
    served,           \* number of requests received so far
    constructed       \* service -> number of instances constructed so far

vars == <<env, proc, index, history, pc, req, calls, matches, pos, text_list,
          source_papers, seen_papers, rag_ret, sources_formatted, prompt, ret,
          summary_markdown, resp, served, constructed>>

ragLocals == <<matches, pos, text_list, source_papers, seen_papers>>

(***************************************************************************)
(* Bounds of the model.                                                    *)
(***************************************************************************)
MaxMatches == 3
MaxRequests == 2

(***************************************************************************)
(* Python values.                                                          *)
(***************************************************************************)
PyNone == <<"<None>">>
Truthy(v) == v # PyNone /\ v # <<>>

Whitespace == {" ", "\n", "\t"}

RECURSIVE LStrip(_)
LStrip(s) == IF s # <<>> /\ Head(s) \in Whitespace THEN LStrip(Tail(s)) ELSE s

RECURSIVE RStrip(_)
RStrip(s) ==
    IF s # <<>> /\ s[Len(s)] \in Whitespace
    THEN RStrip(SubSeq(s, 1, Len(s) - 1))
    ELSE s

\* str.strip()
Strip(s) == RStrip(LStrip(s))

UpperChar(c) ==
    CASE c = "y" -> "Y" [] c = "e" -> "E" [] c = "s" -> "S" [] c = "n" -> "N"
      [] c = "o" -> "O" [] c = "a" -> "A" [] c = "b" -> "B" [] c = "m" -> "M"
      [] OTHER -> c

\* str.upper()
Upper(s) == [k \in 1..Len(s) |-> UpperChar(s[k])]

\* sub in s
Contains(sub, s) ==
    \E k \in 0..(Len(s) - Len(sub)) : SubSeq(s, k + 1, k + Len(sub)) = sub

RECURSIVE Join(_, _)
\* sep.join(parts)
Join(sep, parts) ==
    IF parts = <<>> THEN <<>>
    ELSE IF Len(parts) = 1 THEN parts[1]
    ELSE parts[1] \o sep \o Join(sep, Tail(parts))

\* str(i + 1) of enumerate
Num(n) == CASE n = 1 -> "1" [] n = 2 -> "2" [] n = 3 -> "3" [] n = 4 -> "4"
            [] n = 5 -> "5" [] OTHER -> "n"

(***************************************************************************)
(* Configuration and start-up.                                             *)
(***************************************************************************)
Keys == {"GEMINI_API_KEY", "PINECONE_API_KEY", "GROQ_API_KEY"}
\* a key is missing, set to the empty string, or set; the code never tests
\* the value of GEMINI_API_KEY, so its empty value is not told apart from set
EnvValues(k) ==
    IF k = "GEMINI_API_KEY" THEN {"missing", "set"} ELSE {"missing", "empty", "set"}
Envs == { e \in [Keys -> {"missing", "empty", "set"}] : \A k \in Keys : e[k] \in EnvValues(k) }

\* faulty variant: the fields have defaults
SettingsLoadLenient == TRUE

\* Settings(): the three fields are required str fields without defaults
SettingsLoad == \A k \in Keys : env[k] # "missing"

SYSTEM_PROMPT == <<"You are a friendly assistant that answers user questions concisely. ...">>
SeedHistory ==
    << [role |-> "user", caller |-> 0, parts |-> SYSTEM_PROMPT],
       [role |-> "model", caller |-> 0,
        parts |-> <<"Understood. I will provide a concise answer based on the context.">>] >>

(***************************************************************************)
(* The external index.  A match is its metadata: text, title and authors,  *)
(* each a str or absent (PyNone).                                          *)
(***************************************************************************)
Md(text, title, authors) == [text |-> text, title |-> title, authors |-> authors]
MatchKinds ==
    { Md(<<"t1">>, <<"A">>, <<"x">>),
      Md(PyNone, <<"B">>, PyNone),
      Md(<<"t3">>, PyNone, <<"z">>) }

SeqsUpTo(S, n) == UNION { [1..k -> S] : k \in 0..n }
MatchSeqs == SeqsUpTo(MatchKinds, MaxMatches)

TOP_K == 100
Min(a, b) == IF a < b THEN a ELSE b

Messages == {<<>>, <<"q">>}
Callers == {1, 2}

NoReq == [kind |-> "none", caller |-> 0, message |-> <<>>]
NoRet == [t |-> "none", s |-> <<>>, viz |-> {}]
NoResp == [route |-> "none", status |-> 0, reply |-> <<>>, summary |-> <<>>,
           visualization_data |-> {}, data |-> {}]
EmptyPair == [texts |-> <<>>, sources |-> <<>>]

\* an entry of the log of external calls: the call, whether it returned, and
\* the text it returned
Call(name, ok, content) == [call |-> name, ok |-> ok, content |-> content]
Called(name) == \E k \in 1..Len(calls) : calls[k].call = name
Failed(name) == \E k \in 1..Len(calls) : calls[k].call = name /\ ~calls[k].ok
TimesCalled(name) == Cardinality({ k \in 1..Len(calls) : calls[k].call = name })

Str(s) == [t |-> "str", s |-> s, viz |-> {}]

\* the module-level service objects and the RAGService held by the chatbot
Services == {"chatbot", "rag", "summarize"}

Init ==
    /\ env \in Envs
    /\ index \in [Messages \ {<<>>} -> MatchSeqs]
    /\ proc = "boot"
    /\ history = <<>>
    /\ pc = "idle"
    /\ req = NoReq
    /\ calls = <<>>
    /\ matches = <<>>
    /\ pos = 0
    /\ text_list = <<>>
    /\ source_papers = <<>>
    /\ seen_papers = {}
    /\ rag_ret = EmptyPair
    /\ sources_formatted = <<>>
    /\ prompt = <<>>
    /\ ret = NoRet
    /\ summary_markdown = <<>>
    /\ resp = NoResp
    /\ served = 0
    /\ constructed = [s \in Services |-> 0]

handlerVars == <<pc, req, calls, matches, pos, text_list, source_papers,
                 seen_papers, rag_ret, sources_formatted, prompt, ret,
                 summary_markdown, resp, served>>

\* app/config.py: settings = Settings(), run by the first import of app.config
LoadSettings ==
    /\ proc = "boot"
    /\ proc' = IF SettingsLoad THEN "settings" ELSE "failed"
    /\ UNCHANGED <<env, index, history, handlerVars, constructed>>

\* RAGService.__init__ and _warm_up: TRUE iff construction may succeed
RagInitAccepts == env["PINECONE_API_KEY"] # "empty"

\* app/api/endpoints/chatbot.py: chatbot_service = ChatbotService()
ConstructChatbotService ==
    /\ proc = "settings"
    /\ history' = SeedHistory
    /\ \E warm \in BOOLEAN :
          IF RagInitAccepts /\ warm
          THEN /\ proc' = "chatbot"
               /\ constructed' = [constructed EXCEPT !["rag"] = @ + 1,
                                                     !["chatbot"] = @ + 1]
          ELSE /\ proc' = "failed"
               /\ UNCHANGED constructed
    /\ UNCHANGED <<env, index, handlerVars>>

\* SummarizeService.__init__
SummarizeInitAccepts == env["GROQ_API_KEY"] # "empty"

\* app/api/endpoints/summarize.py: summarize_service = SummarizeService()
ConstructSummarizeService ==
    /\ proc = "chatbot"
    /\ IF SummarizeInitAccepts
       THEN /\ proc' = "running"
            /\ constructed' = [constructed EXCEPT !["summarize"] = @ + 1]
       ELSE /\ proc' = "failed"
            /\ UNCHANGED constructed
    /\ UNCHANGED <<env, index, history, handlerVars>>

(***************************************************************************)
(* RAGService.query                                                        *)
(***************************************************************************)
\* where RAGService.query returns to
AfterRag == IF req.kind = "chat" THEN "gca_after_rag" ELSE "idle"

\* if text: text_list.append(text)
AppendText(tl, md) == IF Truthy(md.text) THEN Append(tl, md.text) ELSE tl

\* faulty variant: the seen_papers test is missing
IsNewPaperNoSeen(seen, md) == Truthy(md.title)

\* if title and title not in seen_papers
IsNewPaper(seen, md) == Truthy(md.title) /\ md.title \notin seen

\* source_papers.append({"title": title, "authors": metadata.get('authors', 'N/A')})
AppendSource(sp, seen, md) ==
    IF IsNewPaper(seen, md)
    THEN Append(sp, [title |-> md.title,
                     authors |-> IF md.authors = PyNone THEN <<"N/A">> ELSE md.authors])
    ELSE sp

\* seen_papers.add(title)
AddSeen(seen, md) == IF IsNewPaper(seen, md) THEN seen \cup {md.title} ELSE seen

\* faulty variant: the except branch returns what was built so far
ExceptPairPartial(tl, sp) == [texts |-> tl, sources |-> sp]

\* value of the except branch: return [], []
ExceptPair(tl, sp) == EmptyPair

\* if not user_query
RagEmptyQuery(user_query) == ~Truthy(user_query)

\* if not user_query: return [], []
RagEntry ==
    /\ pc = "rag_entry"
    /\ IF RagEmptyQuery(req.message)
       THEN /\ rag_ret' = EmptyPair
            /\ pc' = AfterRag
       ELSE /\ pc' = "rag_encode"
            /\ UNCHANGED rag_ret
    /\ UNCHANGED <<constructed, env, proc, index, history, req, calls, ragLocals,
                   sources_formatted, prompt, ret, summary_markdown, resp, served>>

\* query_embedding = self.model.encode(user_query).tolist()
RagEncode ==
    /\ pc = "rag_encode"
    /\ \E ok \in BOOLEAN :
          /\ calls' = Append(calls, Call("encode", ok, <<>>))
          /\ pc' = IF ok THEN "rag_index" ELSE "rag_except"
    /\ UNCHANGED <<constructed, env, proc, index, history, req, ragLocals, rag_ret,
                   sources_formatted, prompt, ret, summary_markdown, resp, served>>

\* results = self.index.query(...); matches = results.get('matches', [])
RagIndexQuery ==
    /\ pc = "rag_index"
    /\ \E ok \in BOOLEAN :
          /\ calls' = Append(calls, Call("index_query", ok, <<>>))
          /\ IF ok
             THEN /\ matches' = SubSeq(index[req.message], 1,
                                       Min(TOP_K, Len(index[req.message])))
                  /\ text_list' = <<>>
                  /\ source_papers' = <<>>
                  /\ seen_papers' = {}
                  /\ pos' = 1
                  /\ pc' = "rag_loop"
             ELSE /\ pc' = "rag_except"
                  /\ UNCHANGED ragLocals
    /\ UNCHANGED <<constructed, env, proc, index, history, req, rag_ret, sources_formatted,
                   prompt, ret, summary_markdown, resp, served>>

\* one iteration of: for match in matches (a malformed match raises)
RagLoop ==
    /\ pc = "rag_loop"
    /\ pos <= Len(matches)
    /\ \E ok \in BOOLEAN :
          IF ok
          THEN /\ text_list' = AppendText(text_list, matches[pos])
               /\ source_papers' = AppendSource(source_papers, seen_papers, matches[pos])
               /\ seen_papers' = AddSeen(seen_papers, matches[pos])
               /\ pos' = pos + 1
               /\ pc' = "rag_loop"
          ELSE /\ pc' = "rag_except"
               /\ UNCHANGED <<text_list, source_papers, seen_papers, pos>>
    /\ UNCHANGED <<constructed, env, proc, index, history, req, calls, matches, rag_ret,
                   sources_formatted, prompt, ret, summary_markdown, resp, served>>

\* return text_list, source_papers
RagReturn ==
    /\ pc = "rag_loop"
    /\ pos > Len(matches)
    /\ rag_ret' = [texts |-> text_list, sources |-> source_papers]
    /\ pc' = AfterRag
    /\ UNCHANGED <<constructed, env, proc, index, history, req, calls, ragLocals,
                   sources_formatted, prompt, ret, summary_markdown, resp, served>>

\* except Exception as e: return [], []
RagExcept ==
    /\ pc = "rag_except"
    /\ rag_ret' = ExceptPair(text_list, source_papers)
    /\ pc' = AfterRag
    /\ UNCHANGED <<constructed, env, proc, index, history, req, calls, ragLocals,
                   sources_formatted, prompt, ret, summary_markdown, resp, served>>

\* a direct call of RAGService.query(user_query)
QueryCall ==
    /\ proc = "running"
    /\ pc = "idle"
    /\ served < MaxRequests
    /\ \E q \in Messages : req' = [kind |-> "query", caller |-> 0, message |-> q]
    /\ calls' = <<>>
    /\ matches' = <<>>
    /\ pos' = 0
    /\ text_list' = <<>>
    /\ source_papers' = <<>>
    /\ seen_papers' = {}
    /\ rag_ret' = EmptyPair
    /\ pc' = "rag_entry"
    /\ served' = served + 1
    /\ UNCHANGED <<constructed, env, proc, index, history, sources_formatted, prompt, ret,
                   summary_markdown, resp>>

(***************************************************************************)
(* ChatbotService.get_concise_answer and the chat endpoint                 *)
(***************************************************************************)
PROVIDE_QUERY == <<"Please provide a query.">>
ENDPOINT_SORRY == <<"Sorry, I'm having trouble processing your request right now.">>

\* no_context_message
NoContextMessage(query) ==
    <<"# No Information Found\n\nSorry, we could not find any relevant information for the topic: '">>
        \o query \o <<"'. Please try a different query.">>

\* return {"summary": no_context_message, "visualization_data": {}, "sources": []}
NoContextReturn(query) == [t |-> "dict", s |-> NoContextMessage(query), viz |-> {}]

\* f"[{i+1}] Title: {paper.get('title', 'N/A')}, Authors: {paper.get('authors', 'N/A')}\n"
SourceLine(n, paper) ==
    <<"[", Num(n), "] Title: ">> \o paper.title \o <<", Authors: ">>
        \o paper.authors \o <<"\n">>

RECURSIVE FormatFrom(_, _)
FormatFrom(n, sp) ==
    IF n > Len(sp) THEN <<>> ELSE SourceLine(n, sp[n]) \o FormatFrom(n + 1, sp)

\* for i, paper in enumerate(source_papers): sources_formatted += ...
FormatSources(sp) == FormatFrom(1, sp)

\* context_str = "\n\n---\n\n".join(retrieved_texts)
ContextStr(texts) == Join(<<"\n\n---\n\n">>, texts)

\* prompt = (f"**Role:** ... {query} ... {sources_formatted} ... {context_str} ...")
BuildPrompt(query, sf, ctx) ==
    <<"**Role:** ... **USER QUERY:**\n">> \o query
        \o <<"\n\n**AVAILABLE SOURCES:**\n">> \o sf
        \o <<"\n**CONTEXT TO USE:**\n">> \o ctx
        \o <<"\n\n--- --- ---\n\n**Concise Answer (MAX 3 sentences):**">>

\* faulty variant: the test looks at the sources instead of the texts
NoContextBySources(texts) == rag_ret.sources = <<>>

\* if not retrieved_texts
NoContext(texts) == texts = <<>>

\* outcomes of self.chat.send_message(prompt): it raises, or it returns a
\* response whose .text is a str or raises when read
TextRaises == <<"<raises>">>
SendOutcomes ==
    { [ok |-> FALSE, text |-> <<>>, content |-> PyNone],
      [ok |-> TRUE, text |-> <<" ", "a", " ", "b", "\n">>, content |-> PyNone],
      [ok |-> TRUE, text |-> <<>>, content |-> PyNone],
      [ok |-> TRUE, text |-> TextRaises, content |-> PyNone] }

\* str(response)
ResponseStr(r) == <<"response:">> \o (IF r.text = TextRaises THEN <<>> ELSE r.text)

\* getattr(response, "text", None) or getattr(response, "content", None) or str(response)
ExtractText(r) ==
    IF Truthy(r.text) THEN r.text
    ELSE IF Truthy(r.content) THEN r.content
    ELSE ResponseStr(r)

\* return f"An error occurred: {e}"
ErrorString(e) == <<"An error occurred: ">> \o e

\* faulty variant: the reply is not stripped
ReplyTextUntrimmed(r) == ExtractText(r)

\* return text.strip()
ReplyText(r) == Strip(ExtractText(r))

\* the try block of get_concise_answer, given the outcome of send_message
AnswerOf(r) ==
    IF ~r.ok THEN Str(ErrorString(<<"send_message failed">>))
    ELSE IF r.text = TextRaises THEN Str(ErrorString(<<"response.text failed">>))
    ELSE Str(ReplyText(r))

\* faulty variant: every request talks to a fresh session
HistoryAfterFresh(h, caller, p, r) ==
    IF r.ok
    THEN SeedHistory \o << [role |-> "user", caller |-> caller, parts |-> p],
                           [role |-> "model", caller |-> caller,
                            parts |-> IF r.text = TextRaises THEN <<>> ELSE r.text] >>
    ELSE h

\* the chat session after send_message returned r for prompt p
HistoryAfter(h, caller, p, r) ==
    IF r.ok
    THEN h \o << [role |-> "user", caller |-> caller, parts |-> p],
                 [role |-> "model", caller |-> caller,
                  parts |-> IF r.text = TextRaises THEN <<>> ELSE r.text] >>
    ELSE h

\* faulty variant: the handler builds its own service object
ServiceUsedFresh(c, s) == [c EXCEPT ![s] = @ + 1]

\* the handler reaches its service through the module-level name (or
\* self.ragServe): no instance is constructed
ServiceUsed(c, s) == c

\* POST /api/v1/chatbot/message
ChatReceive ==
    /\ proc = "running"
    /\ pc = "idle"
    /\ served < MaxRequests
    /\ \E c \in Callers, m \in Messages :
          req' = [kind |-> "chat", caller |-> c, message |-> m]
    /\ calls' = <<>>
    /\ resp' = NoResp
    /\ rag_ret' = EmptyPair
    /\ sources_formatted' = <<>>
    /\ prompt' = <<>>
    /\ ret' = NoRet
    /\ summary_markdown' = <<>>
    /\ pc' = "gca_entry"
    /\ served' = served + 1
    /\ constructed' = ServiceUsed(constructed, "chatbot")
    /\ UNCHANGED <<env, proc, index, history, ragLocals>>

\* faulty variant: the empty-query guard is missing
EmptyQueryNever(query) == FALSE

\* if not query
EmptyQuery(query) == ~Truthy(query)

\* if not query: return "Please provide a query."
GcaEntry ==
    /\ pc = "gca_entry"
    /\ IF EmptyQuery(req.message)
       THEN /\ ret' = Str(PROVIDE_QUERY)
            /\ pc' = "chat_respond"
            /\ UNCHANGED constructed
       ELSE /\ pc' = "rag_entry"
            /\ constructed' = ServiceUsed(constructed, "rag")
            /\ UNCHANGED ret
    /\ UNCHANGED <<env, proc, index, history, req, calls, ragLocals, rag_ret,
                   sources_formatted, prompt, summary_markdown, resp, served>>

\* if not retrieved_texts: return {...}; else build context_str,
\* sources_formatted and prompt
GcaAfterRag ==
    /\ pc = "gca_after_rag"
    /\ IF NoContext(rag_ret.texts)
       THEN /\ ret' = NoContextReturn(req.message)
            /\ pc' = "chat_respond"
            /\ UNCHANGED <<sources_formatted, prompt>>
       ELSE /\ sources_formatted' = FormatSources(rag_ret.sources)
            /\ prompt' = BuildPrompt(req.message, FormatSources(rag_ret.sources),
                                     ContextStr(rag_ret.texts))
            /\ pc' = "gca_send"
            /\ UNCHANGED ret
    /\ UNCHANGED <<constructed, env, proc, index, history, req, calls, ragLocals, rag_ret,
                   summary_markdown, resp, served>>

\* try: response = self.chat.send_message(prompt) ... except Exception
GcaSend ==
    /\ pc = "gca_send"
    /\ \E r \in SendOutcomes :
          /\ calls' = Append(calls, Call("send_message", r.ok, r.text))
          /\ history' = HistoryAfter(history, req.caller, prompt, r)
          /\ ret' = AnswerOf(r)
    /\ pc' = "chat_respond"
    /\ UNCHANGED <<constructed, env, proc, index, req, ragLocals, rag_ret, sources_formatted,
                   prompt, summary_markdown, resp, served>>

\* ChatResponse(reply=reply): reply must be a str, else pydantic raises
\* outside the endpoint's try/except and the request ends in a 500
ChatResponseOf(r) ==
    IF r.t = "str"
    THEN [NoResp EXCEPT !.route = "chat", !.status = 200, !.reply = r.s]
    ELSE IF r.t = "raise"
    THEN [NoResp EXCEPT !.route = "chat", !.status = 200, !.reply = ENDPOINT_SORRY]
    ELSE [NoResp EXCEPT !.route = "chat", !.status = 500]

\* handle_chat_message: return ChatResponse(reply=reply)
ChatRespond ==
    /\ pc = "chat_respond"
    /\ resp' = ChatResponseOf(ret)
    /\ pc' = "idle"
    /\ matches' = <<>>
    /\ pos' = 0
    /\ text_list' = <<>>
    /\ source_papers' = <<>>
    /\ seen_papers' = {}
    /\ UNCHANGED <<constructed, env, proc, index, history, req, calls, rag_ret,
                   sources_formatted, prompt, ret, summary_markdown, served>>

(***************************************************************************)
(* SummarizeService.generate_summary and the summarize endpoint            *)
(***************************************************************************)
\* a completion call raises, or returns choices[0].message.content
Raised == [ok |-> FALSE, content |-> <<>>]
Returned(c) == [ok |-> TRUE, content |-> c]

SummaryContents == { <<"## Introduction ...">>, <<>> }
DecisionContents ==
    { <<"Y", "E", "S">>, <<"N", "O">>, <<"y", "e", "s">>, <<"M", "a", "y", "b", "e">>,
      <<>>, <<" ", "Y", "e", "s", ".", "\n">> }
ChartContents ==
    { <<"{", "}">>, <<"{", "type=bar", "labels=a,b", "}">>, <<"{", "type=bar">>, <<>> }

\* f"# Error<br><br>Sorry, the summary could not be generated. **Details:** {e}"
SummaryErrorMessage(e) ==
    <<"# Error<br><br>Sorry, the summary could not be generated. **Details:** ">> \o e

\* {"summary": ..., "visualization_data": ...}
SummaryResult(summary, viz) == [t |-> "dict", s |-> summary, viz |-> viz]

\* decision = response.choices[0].message.content.strip().upper()
Decision(content) == Upper(Strip(content))

\* faulty variant: any answer with a "Y" counts as affirmative
WantsChartLoose(content) == Contains(<<"Y">>, Decision(content))

\* faulty variant: the decision is ignored
WantsChartAlways(content) == TRUE

\* not ("YES" not in decision)
WantsChart(content) == Contains(<<"Y", "E", "S">>, Decision(content))

\* json.loads(chart_json_string) succeeds
JsonParses(s) == Len(s) >= 2 /\ s[1] = "{" /\ s[Len(s)] = "}"

\* json.loads(chart_json_string): the members of the object
JsonLoads(s) == { s[k] : k \in 2..(Len(s) - 1) }

\* faulty variant: a parse failure keeps the members read so far
ChartDataKeepsPartial(out) ==
    IF out.ok
    THEN { out.content[k] : k \in 1..Len(out.content) } \ {"{", "}"}
    ELSE {}

\* faulty variant: the except branches of step 2 return an error marker instead of {}
ChartDataLeaksError(out) ==
    IF out.ok /\ JsonParses(out.content) THEN JsonLoads(out.content) ELSE {"error"}

\* step 2 and 3 of _generate_visualization_data, given the chart call's outcome
ChartData(out) ==
    IF out.ok /\ JsonParses(out.content) THEN JsonLoads(out.content) ELSE {}

\* POST /api/v1/summarize/
SummarizeReceive ==
    /\ proc = "running"
    /\ pc = "idle"
    /\ served < MaxRequests
    /\ \E m \in Messages : req' = [kind |-> "summarize", caller |-> 0, message |-> m]
    /\ calls' = <<>>
    /\ resp' = NoResp
    /\ rag_ret' = EmptyPair
    /\ sources_formatted' = <<>>
    /\ prompt' = <<>>
    /\ ret' = NoRet
    /\ summary_markdown' = <<>>
    /\ pc' = "gs_generate"
    /\ served' = served + 1
    /\ constructed' = ServiceUsed(constructed, "summarize")
    /\ UNCHANGED <<env, proc, index, history, ragLocals>>

\* generate_summary: the long-form generation call and its except branch
GsGenerate ==
    /\ pc = "gs_generate"
    /\ \E out \in {Raised} \cup { Returned(c) : c \in SummaryContents } :
          /\ calls' = Append(calls, Call("generate", out.ok, out.content))
          /\ IF out.ok
             THEN /\ summary_markdown' = out.content
                  /\ pc' = "viz_check"
                  /\ UNCHANGED ret
             ELSE /\ ret' = SummaryResult(SummaryErrorMessage(<<"generation failed">>), {})
                  /\ pc' = "sum_respond"
                  /\ UNCHANGED summary_markdown
    /\ UNCHANGED <<constructed, env, proc, index, history, req, ragLocals, rag_ret,
                   sources_formatted, prompt, resp, served>>

\* _generate_visualization_data, step 1: the plausibility check
VizCheck ==
    /\ pc = "viz_check"
    /\ \E out \in {Raised} \cup { Returned(c) : c \in DecisionContents } :
          /\ calls' = Append(calls, Call("check", out.ok, out.content))
          /\ IF out.ok /\ WantsChart(out.content)
             THEN /\ pc' = "viz_chart"
                  /\ UNCHANGED ret
             ELSE /\ ret' = SummaryResult(summary_markdown, {})
                  /\ pc' = "sum_respond"
    /\ UNCHANGED <<constructed, env, proc, index, history, req, ragLocals, rag_ret,
                   sources_formatted, prompt, summary_markdown, resp, served>>

\* _generate_visualization_data, steps 2 and 3: the chart call and json.loads
VizChart ==
    /\ pc = "viz_chart"
    /\ \E out \in {Raised} \cup { Returned(c) : c \in ChartContents } :
          /\ calls' = Append(calls, Call("chart", out.ok, out.content))
          /\ ret' = SummaryResult(summary_markdown, ChartData(out))
    /\ pc' = "sum_respond"
    /\ UNCHANGED <<constructed, env, proc, index, history, req, ragLocals, rag_ret,
                   sources_formatted, prompt, summary_markdown, resp, served>>

\* SummarizeResponse(summary=result.get("summary", ""),
\*                   visualization_data=result.get("visualization_data", {}))
SummarizeResponseOf(r) ==
    [NoResp EXCEPT !.route = "summarize", !.status = 200, !.summary = r.s,
                   !.visualization_data = r.viz]

\* create_summary: return SummarizeResponse(...)
SummarizeRespond ==
    /\ pc = "sum_respond"
    /\ resp' = SummarizeResponseOf(ret)
    /\ pc' = "idle"
    /\ UNCHANGED <<constructed, env, proc, index, history, req, calls, ragLocals, rag_ret,
                   sources_formatted, prompt, ret, summary_markdown, served>>

(***************************************************************************)
(* The dashboard endpoint.  Floats are in hundredths.                      *)
(***************************************************************************)
\* faulty variant: total_requests is a live counter
mock_data_counted ==
    { <<"total_requests", 1024 + served>>, <<"active_users", 128>>,
      <<"model_performance.chatbot_accuracy", 94>>,
      <<"model_performance.summarizer_rouge_score", 88>> }

\* mock_data of get_dashboard_data
mock_data ==
    { <<"total_requests", 1024>>, <<"active_users", 128>>,
      <<"model_performance.chatbot_accuracy", 94>>,
      <<"model_performance.summarizer_rouge_score", 88>> }

\* GET /api/v1/dashboard/data: return DashboardData(**mock_data)
GetDashboardData ==
    /\ proc = "running"
    /\ pc = "idle"
    /\ resp' = [NoResp EXCEPT !.route = "dashboard", !.status = 200, !.data = mock_data]
    /\ UNCHANGED <<constructed, env, proc, index, history, pc, req, calls, ragLocals, rag_ret,
                   sources_formatted, prompt, ret, summary_markdown, served>>

(***************************************************************************)
(* The application.                                                        *)
(***************************************************************************)
Next ==
    \/ LoadSettings
    \/ ConstructChatbotService
    \/ ConstructSummarizeService
    \/ ChatReceive
    \/ GcaEntry
    \/ RagEntry
    \/ RagEncode
    \/ RagIndexQuery
    \/ RagLoop
    \/ RagReturn
    \/ RagExcept
    \/ GcaAfterRag
    \/ GcaSend
    \/ ChatRespond
    \/ SummarizeReceive
    \/ GsGenerate
    \/ VizCheck
    \/ VizChart
    \/ SummarizeRespond
    \/ GetDashboardData

Spec == Init /\ [][Next]_vars

(***************************************************************************)
(* RAGService.query called directly on a constructed service, so that the  *)
(* empty query (which get_concise_answer never passes on) is covered.      *)
(***************************************************************************)
InitQuery ==
    /\ env = [k \in Keys |-> "set"]
    /\ index \in [Messages \ {<<>>} -> MatchSeqs]
    /\ proc = "running"
    /\ history = SeedHistory
    /\ pc = "idle"
    /\ req = NoReq
    /\ calls = <<>>
    /\ matches = <<>>
    /\ pos = 0
    /\ text_list = <<>>
    /\ source_papers = <<>>
    /\ seen_papers = {}
    /\ rag_ret = EmptyPair
    /\ sources_formatted = <<>>
    /\ prompt = <<>>
    /\ ret = NoRet
    /\ summary_markdown = <<>>
    /\ resp = NoResp
    /\ served = 0
    /\ constructed = [s \in Services |-> 1]

NextQuery ==
    \/ QueryCall
    \/ RagEntry
    \/ RagEncode
    \/ RagIndexQuery
    \/ RagLoop
    \/ RagReturn
    \/ RagExcept

SpecQuery == InitQuery /\ [][NextQuery]_vars

(***************************************************************************)
(* Properties.                                                             *)
(***************************************************************************)
\* the last finished request was a chat request and its response is resp
ChatDone == pc = "idle" /\ req.kind = "chat" /\ resp.route = "chat"
\* the last finished request was a summarize request and its response is resp
SummarizeDone == pc = "idle" /\ req.kind = "summarize" /\ resp.route = "summarize"
AnyCallFailed == \E k \in 1..Len(calls) : ~calls[k].ok
\* the text a call returned (the call was issued and did not raise)
ReturnedBy(name) ==
    calls[CHOOSE k \in 1..Len(calls) : calls[k].call = name].content

\* C1: a non-empty chat message whose retrieval yields no passage text is
\* answered 200 with the fixed "no information found" message as the reply
\* string, and send_message is not called for it.
C1_NoPassagesReply ==
    (ChatDone /\ Truthy(req.message) /\ rag_ret.texts = <<>>)
        => /\ resp.status = 200
           /\ resp.reply = NoContextMessage(req.message)
           /\ ~Called("send_message")

\* s is the error fallback of generate_summary
IsFallbackSummary(s) ==
    /\ s # <<>>
    /\ s[1] = "# Error<br><br>Sorry, the summary could not be generated. **Details:** "

\* C2 as stated: whenever a provider call of a summarize request raised, the
\* response is a normal one whose summary is the non-empty error fallback and
\* whose visualization_data is {}.
C2_FallbackOnAnyFailure ==
    (SummarizeDone /\ AnyCallFailed)
        => /\ resp.status = 200
           /\ IsFallbackSummary(resp.summary)
           /\ resp.visualization_data = {}

\* C2 amended: whenever a provider call of a summarize request raised, the
\* response is a normal one (status 200) with visualization_data {}; its
\* summary is the non-empty error fallback when the generation call raised,
\* and the text the generation call returned when a later call raised.
C2_DefaultOnAnyFailure ==
    (SummarizeDone /\ AnyCallFailed)
        => /\ resp.status = 200
           /\ resp.visualization_data = {}
           /\ Failed("generate") => IsFallbackSummary(resp.summary)
           /\ ~Failed("generate") => resp.summary = ReturnedBy("generate")

C2_Witness == SummarizeDone /\ Failed("chart") /\ resp.summary # <<>>

YES == <<"Y", "E", "S">>
\* the plausibility-check call was issued and returned
CheckReturned == Called("check") /\ ~Failed("check")

\* C3 as stated: whenever the plausibility check returns a string that does
\* not contain "YES", the chart call is not issued and visualization_data is {}.
C3_NoChartUnlessYes ==
    (req.kind = "summarize" /\ CheckReturned /\ ~Contains(YES, ReturnedBy("check")))
        => /\ ~Called("chart")
           /\ SummarizeDone => resp.visualization_data = {}

\* C3 amended: whenever the plausibility check returns a string that does not
\* contain "YES" in any letter case (the code upper-cases the answer before
\* testing it), the chart call is not issued and visualization_data is {}.
C3_NoChartUnlessYesAnyCase ==
    (req.kind = "summarize" /\ CheckReturned
        /\ ~Contains(YES, Upper(ReturnedBy("check"))))
        => /\ ~Called("chart")
           /\ SummarizeDone => resp.visualization_data = {}

C3_Witness ==
    /\ SummarizeDone
    /\ CheckReturned
    /\ ReturnedBy("check") = <<"M", "a", "y", "b", "e">>
    /\ resp.status = 200

\* C4: whenever an external call of a chat or summarize request failed, the
\* handler still returns its normal response (status 200).
C4_NoFailurePropagates ==
    (pc = "idle" /\ resp.route \in {"chat", "summarize"} /\ AnyCallFailed)
        => resp.status = 200

\* the request being handled, or handled last, is an empty chat message
EmptyChat == req.kind = "chat" /\ req.message = <<>>

\* C5: an empty chat message is answered with the fixed 'Please provide a
\* query.' reply, no external call is issued for it, and the steps that
\* handle it leave the shared chat history unchanged.
C5_EmptyMessage ==
    /\ [](EmptyChat => calls = <<>>)
    /\ []((EmptyChat /\ ChatDone)
            => resp.status = 200 /\ resp.reply = <<"Please provide a query.">>)
    /\ [][(EmptyChat /\ pc # "idle") => history' = history]_vars

C5_Witness == EmptyChat /\ ChatDone /\ served = MaxRequests /\ Len(history) > 2

\* the distinct non-empty titles of a sequence of matches
TitlesOf(ms) == { ms[k].title : k \in 1..Len(ms) } \ {PyNone, <<>>}
\* the position of the first match that carries title t
FirstMatch(t, ms) == CHOOSE k \in 1..Len(ms) :
    ms[k].title = t /\ \A j \in 1..(k - 1) : ms[j].title # t
\* sp holds exactly one entry per distinct non-empty title of ms, ordered by
\* the first match in which each title appears
OnePerTitleInFirstSeenOrder(sp, ms) ==
    /\ { sp[j].title : j \in 1..Len(sp) } = TitlesOf(ms)
    /\ Len(sp) = Cardinality(TitlesOf(ms))
    /\ \A j, k \in 1..Len(sp) :
          j < k => FirstMatch(sp[j].title, ms) < FirstMatch(sp[k].title, ms)
\* sf holds Len(sp) entries, the n-th being "[n] Title: <title of sp[n]>, ..."
OpeningsOf(sf) == { k \in 1..Len(sf) : sf[k] = "[" }
NthOpening(sf, n) == CHOOSE k \in OpeningsOf(sf) :
    Cardinality({ j \in OpeningsOf(sf) : j <= k }) = n
NumberedInOrder(sf, sp) ==
    /\ Cardinality(OpeningsOf(sf)) = Len(sp)
    /\ \A n \in 1..Len(sp) :
          /\ sf[NthOpening(sf, n) + 1] = Num(n)
          /\ sf[NthOpening(sf, n) + 2] = "] Title: "
          /\ sf[NthOpening(sf, n) + 3] = sp[n].title[1]

\* C6: while the loop of RAGService.query runs, and in what it returns
\* normally, the source list holds exactly one entry per distinct non-empty
\* title of the matches processed, in first-seen order; the chat flow's
\* formatted source list numbers these entries [1]..[n] in that order.
C6_DedupFirstSeen ==
    /\ pc = "rag_loop"
        => OnePerTitleInFirstSeenOrder(source_papers, SubSeq(matches, 1, pos - 1))
    /\ (pc = "gca_after_rag" /\ rag_ret # EmptyPair)
        => OnePerTitleInFirstSeenOrder(rag_ret.sources, matches)
    /\ pc = "gca_send"
        => /\ OnePerTitleInFirstSeenOrder(rag_ret.sources, matches)
           /\ NumberedInOrder(sources_formatted, rag_ret.sources)

C6_Witness ==
    /\ pc = "gca_send"
    /\ Len(matches) = 3
    /\ matches[1].title = <<"B">>
    /\ matches[2].title = <<"A">>
    /\ matches[3].title = <<"B">>
    /\ Len(rag_ret.sources) = 2

\* r is t without its leading and trailing whitespace
IsTrimOf(r, t) ==
    \E a, b \in 0..Len(t) :
        /\ a + b <= Len(t)
        /\ r = SubSeq(t, a + 1, Len(t) - b)
        /\ \A k \in 1..a : t[k] \in Whitespace
        /\ \A k \in (Len(t) - b + 1)..Len(t) : t[k] \in Whitespace
        /\ r # <<>> => (r[1] \notin Whitespace /\ r[Len(r)] \notin Whitespace)
SendReturnedText ==
    Called("send_message") /\ ~Failed("send_message")
        /\ ReturnedBy("send_message") # TextRaises
IsErrorString(s) == s # <<>> /\ s[1] = "An error occurred: "

QueryDone == pc = "idle" /\ req.kind = "query"
\* the try block of RAGService.query raised
QueryRaised ==
    \/ Failed("encode")
    \/ Failed("index_query")
    \/ (Called("index_query") /\ ~Failed("index_query") /\ pos <= Len(matches))

\* C8: RAGService.query returns ([], []) for an empty query, without calling
\* the embedding model or the index, and whenever the embedding call, the
\* index query or the processing of a match raises, whatever was built before.
C8_EmptyOnEmptyOrException ==
    /\ (req.kind = "query" /\ req.message = <<>>) => calls = <<>>
    /\ (QueryDone /\ req.message = <<>>) => rag_ret = EmptyPair
    /\ (QueryDone /\ QueryRaised) => rag_ret = EmptyPair

C8_Witness ==
    /\ QueryDone
    /\ QueryRaised
    /\ pos = 3
    /\ text_list # <<>>
    /\ source_papers # <<>>
    /\ rag_ret = EmptyPair

AnyKeyMissing == \E k \in Keys : env[k] = "missing"

\* C9: with any of the three keys missing, start-up never gets past loading
\* the settings: no service is constructed, the process never runs and no
\* request is ever received.
C9_MissingKeyFailsStartup ==
    AnyKeyMissing
        => /\ proc \in {"boot", "failed"}
           /\ history = <<>>
           /\ served = 0
           /\ resp = NoResp

C9_Witness ==
    /\ proc = "failed"
    /\ env["GROQ_API_KEY"] = "missing"
    /\ env["GEMINI_API_KEY"] = "set"
    /\ env["PINECONE_API_KEY"] = "empty"

\* the literal the dashboard is documented to return
FixedDashboard ==
    { <<"total_requests", 1024>>, <<"active_users", 128>>,
      <<"model_performance.chatbot_accuracy", 94>>,
      <<"model_performance.summarizer_rouge_score", 88>> }
\* a step that answers a dashboard call
DashboardStep == pc = "idle" /\ pc' = "idle" /\ resp'.route = "dashboard"

\* C10: every dashboard call returns the same fixed output and changes no
\* state of the program, whatever chat and summarize requests came before.
C10_DashboardPure ==
    /\ [](resp.route = "dashboard" => (resp.status = 200 /\ resp.data = FixedDashboard))
    /\ [][DashboardStep
            => UNCHANGED <<constructed, env, proc, index, history, pc, req, calls, matches, pos,
                           text_list, source_papers, seen_papers, rag_ret,
                           sources_formatted, prompt, ret, summary_markdown,
                           served>>]_vars

C10_Witness ==
    /\ resp.route = "dashboard"
    /\ served = MaxRequests
    /\ Len(history) > 2
    /\ req.kind = "summarize"

\* the names of the calls issued so far for the request, in order
CallNames == [k \in 1..Len(calls) |-> calls[k].call]

\* C11: within a summarize request the calls are issued in the order long-form
\* generation, plausibility check, chart generation, each at most once; the
\* check is issued only after the generation call returned, and the chart call
\* only after the check returned an affirmative decision.
C11_CallOrder ==
    req.kind = "summarize"
        => /\ CallNames \in { <<>>, <<"generate">>, <<"generate", "check">>,
                              <<"generate", "check", "chart">> }
           /\ Called("check") => ~Failed("generate")
           /\ Called("chart")
                => (CheckReturned /\ Contains(YES, Upper(ReturnedBy("check"))))

C11_Witness ==
    /\ SummarizeDone
    /\ CallNames = <<"generate", "check", "chart">>
    /\ ReturnedBy("check") = <<"y", "e", "s">>
    /\ resp.visualization_data # {}

\* the chart call returned text that is not a JSON object
ChartNotJson ==
    /\ Called("chart")
    /\ ~Failed("chart")
    /\ \/ ReturnedBy("chart") = <<>>
       \/ ReturnedBy("chart")[1] # "{"
       \/ ReturnedBy("chart")[Len(ReturnedBy("chart"))] # "}"

\* C12: when the plausibility-check call fails, the chart call fails, or the
\* chart output does not parse as JSON, the request still ends in a normal
\* response whose visualization_data is {} and whose summary is the text the
\* generation call returned.
C12_VizFailureYieldsEmpty ==
    (SummarizeDone /\ (Failed("check") \/ Failed("chart") \/ ChartNotJson))
        => /\ resp.status = 200
           /\ resp.visualization_data = {}
           /\ resp.summary = ReturnedBy("generate")

C12_Witness ==
    /\ SummarizeDone
    /\ ChartNotJson
    /\ ReturnedBy("chart") = <<"{", "type=bar">>
    /\ resp.summary = <<"## Introduction ...">>

IsPrefix(a, b) == Len(a) <= Len(b) /\ SubSeq(b, 1, Len(a)) = a
\* the chat session exists
ChatConstructed == proc \in {"chatbot", "running"}
\* a step in which send_message returned
SendReturnedStep ==
    pc = "gca_send" /\ pc' = "chat_respond" /\ calls'[Len(calls')].ok

\* C13: the one chat session starts with the fixed system instruction; its
\* history is never reset or truncated; every send_message that returns
\* appends the caller's prompt and the reply to it, so a prompt is answered
\* with the earlier prompts and replies of all callers in the history.
C13_SharedHistory ==
    /\ [](ChatConstructed
            => /\ Len(history) >= 2
               /\ history[1] = [role |-> "user", caller |-> 0, parts |-> SYSTEM_PROMPT]
               /\ history[2].role = "model")
    /\ [][IsPrefix(history, history')]_vars
    /\ [][SendReturnedStep
            => /\ Len(history') = Len(history) + 2
               /\ history'[Len(history) + 1].role = "user"
               /\ history'[Len(history) + 1].parts = prompt
               /\ history'[Len(history) + 1].caller = req.caller
               /\ history'[Len(history) + 2].role = "model"]_vars

\* caller 2's prompt is about to be sent into a history that holds caller 1's
C13_Witness ==
    /\ pc = "gca_send"
    /\ req.caller = 2
    /\ Len(history) = 4
    /\ history[3].caller = 1
    /\ history[3].role = "user"

\* get_concise_answer has returned for the chat request
ChatAnswered == req.kind = "chat" /\ pc \in {"chat_respond", "idle"}

\* C15: in the chat flow send_message is called if and only if the message is
\* non-empty and the retrieved text list is non-empty, whatever the source
\* list: with sources but no text the 'no information' value is returned, and
\* with text but no source the prompt is sent with an empty source list.
C15_SendIffTexts ==
    ChatAnswered
        => /\ Called("send_message") <=> (req.message # <<>> /\ rag_ret.texts # <<>>)
           /\ (req.message # <<>> /\ rag_ret.texts = <<>>)
                => ret.s = NoContextMessage(req.message)
           /\ (Called("send_message") /\ rag_ret.sources = <<>>)
                => /\ sources_formatted = <<>>
                   /\ \E k \in 1..(Len(prompt) - 1) :
                         /\ prompt[k] = "\n\n**AVAILABLE SOURCES:**\n"
                         /\ prompt[k + 1] = "\n**CONTEXT TO USE:**\n"

\* text without a title: the prompt was sent with no source
C15_Witness ==
    /\ ChatAnswered
    /\ Called("send_message")
    /\ rag_ret.sources = <<>>
    /\ rag_ret.texts = << <<"t3">>, <<"t3">> >>

\* titles without text: sources were found and nothing was sent
C15_NoTextReached ==
    /\ ChatAnswered
    /\ ~Called("send_message")
    /\ rag_ret.sources # <<>>
    /\ rag_ret.texts = <<>>

\* C14 as stated: no service is constructed before the first request, and
\* none is constructed more than once.
C14_LazyOnce ==
    /\ \A s \in Services : constructed[s] <= 1
    /\ served = 0 => \A s \in Services : constructed[s] = 0

\* C14 amended: every service singleton is constructed while the application
\* is imported, before the first request is received; it is constructed
\* exactly once, and the requests construct none (they reuse the instance).
C14_EagerOnce ==
    /\ [](\A s \in Services : constructed[s] <= 1)
    /\ [](proc = "running" => \A s \in Services : constructed[s] = 1)
    /\ [](served > 0 => proc = "running")
    /\ [][proc = "running" => constructed' = constructed]_vars

C14_Witness ==
    /\ served = MaxRequests
    /\ pc = "idle"
    /\ req.kind = "chat"
    /\ Called("send_message")
    /\ \A s \in Services : constructed[s] = 1

====
